---- MODULE Spec2Model ----
(***************************************************************************)
(* The ingestion service of services/ingestion/app/main.py: the /healthz   *)
(* handler health_check, the root handler, and the two admin handlers that *)
(* set and clear the module-level flag _force_unhealthy.                   *)
(*                                                                         *)
(* The handlers are `async def` coroutines served by one uvicorn process   *)
(* (main.py:99).  None of them contains an await, so once the event loop   *)
(* has started a handler it runs to its return before any other handler    *)
(* starts; requests that arrive meanwhile wait in the loop's queue.        *)
(*                                                                         *)
(* Percentages are fixed-point numbers in thousandths of a percent, one    *)
(* digit finer than the two decimals the report rounds to.                 *)
(*                                                                         *)
(* Three test programs of the repository that decide from what they are    *)
(* answered, or from the date, follow the service: the deployment probe    *)
(* _test_service_health, test_service_reliability_indicators and the two   *)
(* audit-schedule tests.  Each has a specification of its own.             *)
(***************************************************************************)
EXTENDS Integers, Sequences, FiniteSets, TLC

VARIABLES
    _force_unhealthy,   \* the module-level flag (main.py:69)
    pending,            \* requests accepted by the event loop, not yet handled
    pc,                 \* position of the running health_check: "idle" | "sampling"
    sample,             \* locals of the running health_check: what psutil returned
    resp,               \* the last response sent for GET /healthz
    now,                \* wall clock, in seconds
    lastAdmin,          \* history: the admin handler that completed last
    failedAt,           \* history: clock value at the last simulate_health_failure
    call,               \* history: the inputs of the last completed health_check
    ack,                \* the last response sent by root or by an admin handler
    prev,               \* history: one earlier health_check, kept for comparison
    \* _test_service_health (tests/integration/test_coolify_deployment.py:100-167)
    probe,              \* its position: "ready" | "looping" | "passed" | "failed" | "skipped"
    attempt,            \* the loop variable: attempts started so far
    answers,            \* history: what each attempt was answered with
    waited,             \* seconds spent in time.sleep
    \* test_service_reliability_indicators (test_coolify_deployment.py:350-395)
    reliability,        \* its position: "ready" | "looping" | "passed" | "failed" | "skipped"
    request,            \* requests made so far (the loop variable i, plus one)
    success_count,      \* the local of that name
    marks,              \* the indicators printed so far, one for each request
    replies,            \* history: what each request was answered with
    \* TestSecurityAuditSchedule (tests/integration/test_security_audit.py:17-80)
    today,              \* what datetime.now() returns, counted from LAST_AUDIT_DATE
    quarterly,          \* the last run of the quarterly test: its time and outcome
    annual              \* the last run of the annual test: its time and outcome

\* The state of the service
serviceVars == <<_force_unhealthy, pending, pc, sample, resp, now, lastAdmin, failedAt,
                 call, ack, prev>>

\* The state of the test programs
probeVars == <<probe, attempt, answers, waited>>
reliabilityVars == <<reliability, request, success_count, marks, replies>>
auditVars == <<today, quarterly, annual>>
testVars == <<probeVars, reliabilityVars, auditVars>>

vars == <<_force_unhealthy, pending, pc, sample, resp, now, lastAdmin, failedAt, call,
          ack, prev, probe, attempt, answers, waited, reliability, request,
          success_count, marks, replies, today, quarterly, annual>>

---------------------------------------------------------------------------
(* Bounds of the model *)

MaxPending == 1     \* requests that may wait in the event loop's queue
TickStep == 70      \* seconds the clock advances in one step
MaxTime == 70       \* the clock stops advancing once it has reached this

(* Program constants *)

Milli == 1000                 \* fixed-point unit: 1 percent = 1000
CPU_THRESHOLD == 90           \* main.py:50
MEMORY_THRESHOLD == 95        \* main.py:50
ADVERTISED_DURATION == 60     \* main.py:85, "duration": "60 seconds"

Requests == {"healthz", "root", "fail", "recover"}

---------------------------------------------------------------------------
(* What psutil can hand to health_check (main.py:21, 26-28) *)

CpuSamples == {10 * Milli, CPU_THRESHOLD * Milli, CPU_THRESHOLD * Milli + 4}
MemSamples == {20 * Milli, MEMORY_THRESHOLD * Milli, 96 * Milli}
DiskSamples == {[used |-> 3, total |-> 10], [used |-> 8, total |-> 10],
                [used |-> 9, total |-> 10], [used |-> 0, total |-> 0]}

NoDisk == [used |-> 0, total |-> 0]

\* The ENVIRONMENT variable of the process as os.getenv finds it (main.py:45):
\* absent, set to the empty string, or set to a label.
EnvUnset == [set |-> FALSE, value |-> ""]
Environments ==
    {EnvUnset} \cup {[set |-> TRUE, value |-> v] : v \in {"", "production", "Keystone-staging"}}

\* What the host's clock and time zone give to main.py:36-37 at one call.
\*   boot, bootMs    psutil.boot_time(): epoch seconds and the milliseconds beyond
\*   nowMs           the milliseconds of datetime.now() beyond the second `now`
\*   offBoot, offNow the zone's UTC offset, in seconds, in effect at boot time
\*                   and at the time of the call
\* The service starts at clock 0, so a boot time <= 0 is never in the future.
ClockUTC == [boot |-> -40, bootMs |-> 0, nowMs |-> 0, offBoot |-> 0, offNow |-> 0]
ClockSamples ==
    {ClockUTC,
     \* sub-second parts: 39.5 s before the service started
     [boot |-> -40, bootMs |-> 750, nowMs |-> 250, offBoot |-> 0, offNow |-> 0],
     \* booted at the instant the service started
     [boot |-> 0, bootMs |-> 0, nowMs |-> 0, offBoot |-> 0, offNow |-> 0],
     \* booted in summer time, 40 s before the zone went back one hour
     [boot |-> -40, bootMs |-> 0, nowMs |-> 0, offBoot |-> 60 * 60, offNow |-> 0]}

\* The extremes of the three percentages.
ExtremeSamples ==
    {[cpu |-> 0, mem |-> 0, disk |-> [used |-> 0, total |-> 10]],
     [cpu |-> 100 * Milli, mem |-> 100 * Milli, disk |-> [used |-> 10, total |-> 10]]}

\* exc = "none": the three psutil calls returned.
\* exc = "ImportError": `import psutil` (main.py:21) failed.
\* exc = "psutil.Error": one of the psutil calls (main.py:26-28) raised.
\* Every combination of the metric samples is taken under the default
\* environment and clock, and every environment and every clock under the
\* scenario sample cpu 10, memory 20, disk 30.
Samples ==
    {[exc |-> "none", cpu |-> c, mem |-> m, disk |-> d,
      env |-> EnvUnset, clock |-> ClockUTC] :
        c \in CpuSamples, m \in MemSamples, d \in DiskSamples}
    \cup {[exc |-> "none", cpu |-> x.cpu, mem |-> x.mem, disk |-> x.disk,
           env |-> EnvUnset, clock |-> ClockUTC] : x \in ExtremeSamples}
    \cup {[exc |-> "none", cpu |-> 10 * Milli, mem |-> 20 * Milli,
           disk |-> [used |-> 3, total |-> 10], env |-> e, clock |-> ClockUTC] :
        e \in Environments}
    \cup {[exc |-> "none", cpu |-> 10 * Milli, mem |-> 20 * Milli,
           disk |-> [used |-> 3, total |-> 10], env |-> EnvUnset, clock |-> k] :
        k \in ClockSamples}
    \cup {[exc |-> e, cpu |-> 0, mem |-> 0, disk |-> NoDisk,
           env |-> EnvUnset, clock |-> ClockUTC] :
        e \in {"ImportError", "psutil.Error"}}

NoSample == [exc |-> "unset", cpu |-> 0, mem |-> 0, disk |-> NoDisk,
             env |-> EnvUnset, clock |-> ClockUTC]
NoResp == [code |-> 0]
NoCall == [done |-> FALSE]
NoAck == [op |-> "none"]
NoPrev == [set |-> FALSE]
NoRun == [ran |-> FALSE, at |-> 0, outcome |-> "none", warned |-> FALSE]

---------------------------------------------------------------------------
(* health_check, main.py:17-65 *)

\* round(x, 2) at main.py:41-43 replaced by rounding up to the next hundredth.
Round2Ceil(x) == ((x + 9) \div 10) * 10

\* round(x, 2) at main.py:41-43: to the nearest hundredth, ties to the even
\* hundredth.
Round2(x) ==
    LET q == x \div 10
        r == x % 10
    IN  IF r < 5 THEN q * 10
        ELSE IF r > 5 THEN (q + 1) * 10
        ELSE IF q % 2 = 0 THEN q * 10 ELSE (q + 1) * 10

\* main.py:43 with a factor of 1000 for 100.
DiskPerMille(d) == (d.used * 1000 * Milli) \div d.total

\* (disk.used / disk.total) * 100 at main.py:43, for disk.total > 0.
DiskPercent(d) == (d.used * 100 * Milli) \div d.total

\* The condition of main.py:50 with >= for >.
ResourceUsageTooHighGe(cpu, mem) ==
    cpu >= CPU_THRESHOLD * Milli \/ mem >= MEMORY_THRESHOLD * Milli

\* The condition of main.py:50.
ResourceUsageTooHigh(cpu, mem) ==
    cpu > CPU_THRESHOLD * Milli \/ mem > MEMORY_THRESHOLD * Milli

\* datetime.datetime.now() at main.py:36: the naive local time of the call, in
\* milliseconds.
LocalNow(k, t) == (t + k.offNow) * 1000 + k.nowMs

\* datetime.datetime.fromtimestamp(psutil.boot_time()) at main.py:37: the naive
\* local time of the boot, in milliseconds.
LocalBoot(k) == (k.boot + k.offBoot) * 1000 + k.bootMs

\* int(x.total_seconds()) at main.py:34-39: truncation towards zero.
TruncSeconds(ms) == IF ms >= 0 THEN ms \div 1000 ELSE -((-ms) \div 1000)

\* main.py:34-39: the two naive local times are subtracted as they stand.
uptime_seconds(k, t) == TruncSeconds(LocalNow(k, t) - LocalBoot(k))

\* os.getenv(name, default) at main.py:45 with (or default) for (, default):
\* an empty value is replaced too.
getenvOrDefault(e, default) == IF e.set /\ e.value # "" THEN e.value ELSE default

\* os.getenv(name, default) at main.py:45: the value when the variable is set,
\* the empty string included, and the default when it is absent.
getenv(e, default) == IF e.set THEN e.value ELSE default

\* The dictionary built at main.py:30-47.
health_info(s, t) ==
    [status |-> "healthy",
     service |-> "ingestion-service",
     timestamp |-> t,
     uptime_seconds |-> uptime_seconds(s.clock, t),
     system |-> [cpu_percent |-> Round2(s.cpu),
                 memory_percent |-> Round2(s.mem),
                 disk_percent |-> Round2(DiskPercent(s.disk))],
     environment |-> getenv(s.env, "unknown"),
     version |-> "0.1.0"]

\* main.py:49-54 with the two branches in the other order.
FullReportOverrideFirst(s, forced, t) ==
    IF forced
    THEN ("reason" :> "Manually triggered for testing")
         @@ [health_info(s, t) EXCEPT !.status = "unhealthy"]
    ELSE IF ResourceUsageTooHigh(s.cpu, s.mem)
    THEN [health_info(s, t) EXCEPT !.status = "degraded"]
    ELSE health_info(s, t)

\* main.py:49-54 without the assignment of main.py:54.
FullReportNoReason(s, forced, t) ==
    IF ResourceUsageTooHigh(s.cpu, s.mem)
    THEN [health_info(s, t) EXCEPT !.status = "degraded"]
    ELSE IF forced
    THEN [health_info(s, t) EXCEPT !.status = "unhealthy"]
    ELSE health_info(s, t)

\* main.py:49-54 without the elif branch.
FullReportNoOverride(s, forced, t) ==
    IF ResourceUsageTooHigh(s.cpu, s.mem)
    THEN [health_info(s, t) EXCEPT !.status = "degraded"]
    ELSE health_info(s, t)

\* main.py:49-54 with the assignment of main.py:54 moved out of the elif.
FullReportReasonAlways(s, forced, t) ==
    ("reason" :> "Manually triggered for testing")
    @@ (IF ResourceUsageTooHigh(s.cpu, s.mem)
        THEN [health_info(s, t) EXCEPT !.status = "degraded"]
        ELSE IF forced
        THEN [health_info(s, t) EXCEPT !.status = "unhealthy"]
        ELSE health_info(s, t))

\* main.py:30-56: the report returned when nothing raised.
FullReport(s, forced, t) ==
    IF ResourceUsageTooHigh(s.cpu, s.mem)
    THEN [health_info(s, t) EXCEPT !.status = "degraded"]
    ELSE IF forced
    THEN ("reason" :> "Manually triggered for testing")
         @@ [health_info(s, t) EXCEPT !.status = "unhealthy"]
    ELSE health_info(s, t)

\* main.py:58-65 with a status of its own for the failed check.
FallbackStatusUnknown(e, t) ==
    [status |-> "unknown",
     service |-> "ingestion-service",
     timestamp |-> t,
     error |-> <<"Extended health check failed: ", e>>]

\* main.py:58-65: the report returned from the except clause; the error text
\* is the fixed prefix followed by str(e).
Fallback(e, t) ==
    [status |-> "healthy",
     service |-> "ingestion-service",
     timestamp |-> t,
     error |-> <<"Extended health check failed: ", e>>]

\* The handler with an except clause that consults the flag as the elif of
\* main.py:52 does.
health_checkFallbackForced(s, forced, t) ==
    LET flagged(b) == IF forced
                      THEN ("reason" :> "Manually triggered for testing")
                           @@ [b EXCEPT !.status = "unhealthy"]
                      ELSE b
    IN  IF s.exc = "ImportError"
        THEN [code |-> 500, raised |-> s.exc]
        ELSE IF s.exc # "none"
        THEN [code |-> 200, body |-> flagged(Fallback(s.exc, t))]
        ELSE IF s.disk.total = 0
        THEN [code |-> 200, body |-> flagged(Fallback("division by zero", t))]
        ELSE [code |-> 200, body |-> FullReport(s, forced, t)]

\* The whole handler.  `import psutil` (main.py:21) stands before the try of
\* main.py:25, so its ImportError leaves the handler and the framework answers
\* 500.  Everything raised at main.py:26-56, the ZeroDivisionError of main.py:43
\* included, is caught at main.py:58.
health_check(s, forced, t) ==
    IF s.exc = "ImportError"
    THEN [code |-> 500, raised |-> s.exc]
    ELSE IF s.exc # "none"
    THEN [code |-> 200, body |-> Fallback(s.exc, t)]
    ELSE IF s.disk.total = 0
    THEN [code |-> 200, body |-> Fallback("division by zero", t)]
    ELSE [code |-> 200, body |-> FullReport(s, forced, t)]

---------------------------------------------------------------------------
(* The state machine *)

Init ==
    /\ _force_unhealthy = FALSE         \* main.py:69
    /\ pending = <<>>
    /\ pc = "idle"
    /\ sample = NoSample
    /\ resp = NoResp
    /\ now = 0
    /\ lastAdmin = "none"
    /\ failedAt = -1
    /\ call = NoCall
    /\ ack = NoAck
    /\ prev = NoPrev
    /\ probe = "ready"
    /\ attempt = 0
    /\ answers = <<>>
    /\ waited = 0
    /\ reliability = "ready"
    /\ request = 0
    /\ success_count = 0                \* test_coolify_deployment.py:359
    /\ marks = <<>>
    /\ replies = <<>>
    /\ today = 0
    /\ quarterly = NoRun
    /\ annual = NoRun

\* A client sends a request; the event loop queues it.
Arrive ==
    /\ Len(pending) < MaxPending
    /\ \E r \in Requests : pending' = Append(pending, r)
    /\ call' = IF pc = "sampling" THEN [call EXCEPT !.overlap = TRUE] ELSE call
    /\ UNCHANGED <<_force_unhealthy, pc, sample, resp, now, lastAdmin, failedAt, ack, prev, testVars>>

\* Time passes.
Tick ==
    /\ now < MaxTime
    /\ now' = now + TickStep
    /\ UNCHANGED <<_force_unhealthy, pending, pc, sample, resp, lastAdmin, failedAt, call,
                   ack, prev, testVars>>

\* main.py:18-28: the event loop starts health_check, which imports psutil and
\* samples (psutil.cpu_percent(interval=0.1) blocks the loop meanwhile).
HealthBeginFrom(S) ==
    /\ pc = "idle"
    /\ pending # <<>> /\ Head(pending) = "healthz"
    /\ pending' = Tail(pending)
    /\ \E s \in S : sample' = s
    /\ pc' = "sampling"
    /\ call' = [done |-> FALSE, overlap |-> FALSE,
                forcedAtStart |-> _force_unhealthy, adminAtStart |-> lastAdmin]
    /\ UNCHANGED <<_force_unhealthy, resp, now, lastAdmin, failedAt, ack, testVars>>

HealthStart == HealthBeginFrom(Samples) /\ UNCHANGED prev

\* What `prev` keeps of a completed call: what it saw and what it answered.
Remembered ==
    [set |-> TRUE, sample |-> call.sample, forced |-> call.forced,
     code |-> resp.code,
     status |-> IF resp.code = 200 THEN resp.body.status ELSE "none"]

\* The samples of the two-call comparison: one for each way health_check can
\* end, and one that differs from the scenario sample in the environment only.
ComparedSamples ==
    {s \in Samples :
        \/ s.exc # "none"
        \/ /\ s.clock = ClockUTC
           /\ s.cpu \in {10 * Milli, CPU_THRESHOLD * Milli + 4}
           /\ s.mem \in {20 * Milli, 96 * Milli}
           /\ s.disk \in {[used |-> 3, total |-> 10], [used |-> 0, total |-> 0]}
           /\ s.env.value \in {"", "production"}}

\* HealthStart with history: the call that has just been overwritten in `call`
\* is kept in `prev`, or `prev` stays as it is, so that `prev` can be any
\* earlier call.
HealthStartRemembering ==
    /\ HealthBeginFrom(ComparedSamples)
    /\ \/ call.done /\ prev' = Remembered
       \/ prev' = prev

\* main.py:30-65: health_check builds its report, reading _force_unhealthy at
\* main.py:52, and returns.  `call` keeps what the call saw: its sample, the
\* flag and the last admin handler at its start and at its end.
HealthReturning(r) ==
    /\ pc = "sampling"
    /\ resp' = r
    /\ pc' = "idle"
    /\ sample' = NoSample
    /\ call' = [done |-> TRUE, overlap |-> call.overlap, sample |-> sample,
                forcedAtStart |-> call.forcedAtStart, forced |-> _force_unhealthy,
                adminAtStart |-> call.adminAtStart, lastAdmin |-> lastAdmin]
    /\ UNCHANGED <<pending, now, lastAdmin, failedAt, ack, prev, testVars>>

HealthReturn == HealthReturning(health_check(sample, _force_unhealthy, now))

\* A health_check that implements the advertised expiry by clearing the flag
\* once it has reported.
HealthFinishExpiring == HealthReturn /\ _force_unhealthy' = FALSE

\* A health_check that keeps its last report and answers with its status again
\* instead of deciding anew.
HealthFinishCached ==
    /\ HealthReturning(
           LET r == health_check(sample, _force_unhealthy, now)
           IN  IF r.code = 200 /\ resp.code = 200
               THEN [r EXCEPT !.body.status = resp.body.status]
               ELSE r)
    /\ UNCHANGED _force_unhealthy

\* health_check has no `global` statement and no assignment to the flag.
HealthFinish == HealthReturn /\ UNCHANGED _force_unhealthy

\* A root handler that also resets the flag.
rootClearing ==
    /\ pc = "idle"
    /\ pending # <<>> /\ Head(pending) = "root"
    /\ pending' = Tail(pending)
    /\ _force_unhealthy' = FALSE
    /\ ack' = [op |-> "root",
               body |-> [service |-> "ingestion-service", status |-> "running",
                         version |-> "0.1.0"]]
    /\ UNCHANGED <<pc, sample, resp, now, lastAdmin, failedAt, call, prev, testVars>>

\* A root handler whose status follows the flag.
rootFollowingFlag ==
    /\ pc = "idle"
    /\ pending # <<>> /\ Head(pending) = "root"
    /\ pending' = Tail(pending)
    /\ ack' = [op |-> "root",
               body |-> [service |-> "ingestion-service",
                         status |-> IF _force_unhealthy THEN "unhealthy" ELSE "running",
                         version |-> "0.1.0"]]
    /\ UNCHANGED <<_force_unhealthy, pc, sample, resp, now, lastAdmin, failedAt, call, prev, testVars>>

\* main.py:72-75
root ==
    /\ pc = "idle"
    /\ pending # <<>> /\ Head(pending) = "root"
    /\ pending' = Tail(pending)
    /\ ack' = [op |-> "root",
               body |-> [service |-> "ingestion-service", status |-> "running",
                         version |-> "0.1.0"]]
    /\ UNCHANGED <<_force_unhealthy, pc, sample, resp, now, lastAdmin, failedAt, call, prev, testVars>>

\* simulate_health_failure as a switch: a second call turns the failure off.
simulate_health_failureToggle ==
    /\ pc = "idle"
    /\ pending # <<>> /\ Head(pending) = "fail"
    /\ pending' = Tail(pending)
    /\ _force_unhealthy' = ~_force_unhealthy
    /\ lastAdmin' = "fail"
    /\ failedAt' = now
    /\ ack' = [op |-> "fail",
               body |-> [message |-> "Health check will fail for the next few checks",
                         duration |-> "60 seconds"]]
    /\ UNCHANGED <<pc, sample, resp, now, call, prev, testVars>>

\* simulate_health_failure served by a thread of its own: it does not wait for
\* a running health_check to return.
simulate_health_failureThreaded ==
    /\ pending # <<>> /\ Head(pending) = "fail"
    /\ pending' = Tail(pending)
    /\ _force_unhealthy' = TRUE
    /\ lastAdmin' = "fail"
    /\ failedAt' = now
    /\ ack' = [op |-> "fail",
               body |-> [message |-> "Health check will fail for the next few checks",
                         duration |-> "60 seconds"]]
    /\ UNCHANGED <<pc, sample, resp, now, call, prev, testVars>>

\* main.py:78-86
simulate_health_failure ==
    /\ pc = "idle"
    /\ pending # <<>> /\ Head(pending) = "fail"
    /\ pending' = Tail(pending)
    /\ _force_unhealthy' = TRUE
    /\ lastAdmin' = "fail"
    /\ failedAt' = now
    /\ ack' = [op |-> "fail",
               body |-> [message |-> "Health check will fail for the next few checks",
                         duration |-> "60 seconds"]]
    /\ UNCHANGED <<pc, sample, resp, now, call, prev, testVars>>

\* recover_health without its `global` statement: the assignment binds a local.
recover_healthLocal ==
    /\ pc = "idle"
    /\ pending # <<>> /\ Head(pending) = "recover"
    /\ pending' = Tail(pending)
    /\ lastAdmin' = "recover"
    /\ ack' = [op |-> "recover",
               body |-> [message |-> "Health check restored to normal operation"]]
    /\ UNCHANGED <<_force_unhealthy, pc, sample, resp, now, failedAt, call, prev, testVars>>

\* recover_health with `not _force_unhealthy` for False: a toggle.
recover_healthToggle ==
    /\ pc = "idle"
    /\ pending # <<>> /\ Head(pending) = "recover"
    /\ pending' = Tail(pending)
    /\ _force_unhealthy' = ~_force_unhealthy
    /\ lastAdmin' = "recover"
    /\ ack' = [op |-> "recover",
               body |-> [message |-> "Health check restored to normal operation"]]
    /\ UNCHANGED <<pc, sample, resp, now, failedAt, call, prev, testVars>>

\* main.py:89-94
recover_health ==
    /\ pc = "idle"
    /\ pending # <<>> /\ Head(pending) = "recover"
    /\ pending' = Tail(pending)
    /\ _force_unhealthy' = FALSE
    /\ lastAdmin' = "recover"
    /\ ack' = [op |-> "recover",
               body |-> [message |-> "Health check restored to normal operation"]]
    /\ UNCHANGED <<pc, sample, resp, now, failedAt, call, prev, testVars>>

Next ==
    \/ Arrive
    \/ Tick
    \/ HealthStart
    \/ HealthFinish
    \/ root
    \/ simulate_health_failure
    \/ recover_health

Spec == Init /\ [][Next]_vars

\* The same handlers at one instant of the clock, with an earlier call kept in
\* `prev`: the specification for comparing two calls.
NextRemembering ==
    \/ Arrive
    \/ HealthStartRemembering
    \/ HealthFinish
    \/ root
    \/ simulate_health_failure
    \/ recover_health

SpecRemembering == Init /\ [][NextRemembering]_vars

---------------------------------------------------------------------------
(* The deployment probe _test_service_health,                              *)
(* tests/integration/test_coolify_deployment.py:100-185                    *)

MAX_RETRIES == 5              \* test_coolify_deployment.py:34
RETRY_DELAY == 10             \* test_coolify_deployment.py:35

\* test_coolify_deployment.py:178-183
acceptable_codes == {200, 404, 405, 501}

\* What session.get gives for the root URL (test_coolify_deployment.py:172):
\* a response with a status code, or an exception.
NoRoot == [exc |-> "none", code |-> 0]
RootAnswers ==
    {[exc |-> "none", code |-> c] : c \in acceptable_codes \cup {403}}
    \cup {[exc |-> "ConnectionError", code |-> 0]}

\* The body of a 200 response as test_coolify_deployment.py:124-133 sees it:
\*   "json_status", "json_health"  a JSON object with that key
\*   "json_neither"                a JSON object with neither key
\*   "invalid_json"                JSON by its content type, but json() raises
\*                                 ValueError
\*   "text"                        another content type
HealthBodies == {"json_status", "json_health", "json_neither", "invalid_json", "text"}

\* What session.get gives for /healthz (test_coolify_deployment.py:114): a
\* response, or an exception.  The session's adapter (lines 43-50) turns a
\* lasting 429, 500, 502, 503 or 504 into a RetryError, so 403 stands for the
\* statuses that reach line 143.
HealthAnswers ==
    {[exc |-> "none", code |-> 200, body |-> b, root |-> NoRoot] : b \in HealthBodies}
    \cup {[exc |-> "none", code |-> 404, body |-> "none", root |-> r] : r \in RootAnswers}
    \cup {[exc |-> "none", code |-> 403, body |-> "none", root |-> NoRoot]}
    \cup {[exc |-> e, code |-> 0, body |-> "none", root |-> NoRoot] :
            e \in {"ConnectTimeout", "ConnectionError", "RetryError"}}

\* _test_root_endpoint with the result of its assert ignored.
_test_root_endpointLenient(r) == "returned"

\* test_coolify_deployment.py:169-194.  The assert of line 185 and whatever
\* session.get raises are caught at line 193 and answered with pytest.fail,
\* whose Failed is no Exception and leaves both functions.
_test_root_endpoint(r) ==
    IF r.exc = "none" /\ r.code \in acceptable_codes THEN "returned" ELSE "Failed"

\* How one pass through the loop body (test_coolify_deployment.py:111-161)
\* ends: with `break`, with the next iteration ("retry"), or with Failed leaving
\* the function.  The AssertionError of line 128 is an Exception: it is caught
\* at line 158 and the loop goes on.
AttemptEnds(a) ==
    IF a.exc # "none" THEN "retry"
    ELSE IF a.code = 200
    THEN IF a.body = "json_neither" THEN "retry" ELSE "break"
    ELSE IF a.code = 404
    THEN IF _test_root_endpoint(a.root) = "returned" THEN "break" ELSE "Failed"
    ELSE "retry"

\* test_coolify_deployment.py:102-108
_test_service_health_entry ==
    /\ probe = "ready"
    /\ \E base_url \in {"", "http://staging"} :
          probe' = IF base_url = "" THEN "skipped" ELSE "looping"
    /\ UNCHANGED <<attempt, answers, waited>>
    /\ UNCHANGED <<serviceVars, reliabilityVars, auditVars>>

\* test_coolify_deployment.py:110-167: one iteration of the loop and, after
\* the last one, the else clause of the for statement.
_test_service_health ==
    /\ probe = "looping"
    /\ attempt < MAX_RETRIES
    /\ \E a \in HealthAnswers :
          LET ends == AttemptEnds(a)
              last == attempt + 1 = MAX_RETRIES
          IN  /\ attempt' = attempt + 1
              /\ answers' = Append(answers, a)
              /\ probe' = IF ends = "break" THEN "passed"
                          ELSE IF ends = "Failed" \/ last THEN "failed"
                          ELSE "looping"
              /\ waited' = IF ends = "retry" /\ ~last
                           THEN waited + RETRY_DELAY ELSE waited
    /\ UNCHANGED <<serviceVars, reliabilityVars, auditVars>>

NextProbe ==
    \/ _test_service_health_entry
    \/ _test_service_health

SpecProbe == Init /\ [][NextProbe]_vars

---------------------------------------------------------------------------
(* test_service_reliability_indicators,                                    *)
(* tests/integration/test_coolify_deployment.py:350-395                    *)

consecutive_requests == 3     \* test_coolify_deployment.py:358
min_reliability == 667        \* test_coolify_deployment.py:389: 66.7, in tenths

\* test_coolify_deployment.py:371
root_success_codes == {200, 404, 405, 501}

\* What one request of the loop is answered with: the answers of /healthz,
\* the content of a 200 response left aside (the test does not read it).
ReliabilityAnswers == {a \in HealthAnswers : a.body \in {"none", "json_status"}}

\* test_coolify_deployment.py:366-372: the request adds one to success_count.
RequestSucceeds(a) ==
    /\ a.exc = "none"
    /\ \/ a.code = 200
       \/ /\ a.code = 404
          /\ a.root.exc = "none"
          /\ a.root.code \in root_success_codes

\* One of the two session.get calls (lines 364, 370) raised: control goes to
\* the except clause of line 378.
RequestRaised(a) == a.exc # "none" \/ (a.code = 404 /\ a.root.exc # "none")

\* The indicator printed at line 375, `success_count > i`, or at line 379.
Indicator(a, count, idx) ==
    IF RequestRaised(a) THEN "failure"
    ELSE IF count > idx THEN "success" ELSE "failure"

\* Lines 382-393: (success_count / consecutive_requests) * 100 >= 66.7, both
\* sides multiplied by 10 * consecutive_requests.  The quotients 0, 1/3, 2/3
\* and 1 lie far enough from 0.667 for the floating-point result to compare as
\* the exact one does: (2 / 3) * 100 is 66.66666666666666.
Reliable(count) == count * 100 * 10 >= min_reliability * consecutive_requests

\* test_coolify_deployment.py:354-355
test_service_reliability_indicators_entry ==
    /\ reliability = "ready"
    /\ \E STAGING_URL \in {"", "http://staging"} :
          reliability' = IF STAGING_URL = "" THEN "skipped" ELSE "looping"
    /\ UNCHANGED <<request, success_count, marks, replies>>
    /\ UNCHANGED <<serviceVars, probeVars, auditVars>>

\* test_coolify_deployment.py:361-395: one iteration of the loop and, after
\* the last one, the assertion on the reliability percentage.
test_service_reliability_indicators ==
    /\ reliability = "looping"
    /\ request < consecutive_requests
    /\ \E a \in ReliabilityAnswers :
          LET count == IF RequestSucceeds(a) THEN success_count + 1 ELSE success_count
              last == request + 1 = consecutive_requests
          IN  /\ success_count' = count
              /\ marks' = Append(marks, Indicator(a, count, request))
              /\ replies' = Append(replies, a)
              /\ request' = request + 1
              /\ reliability' = IF ~last THEN "looping"
                                ELSE IF Reliable(count) THEN "passed" ELSE "failed"
    /\ UNCHANGED <<serviceVars, probeVars, auditVars>>

NextReliability ==
    \/ test_service_reliability_indicators_entry
    \/ test_service_reliability_indicators

SpecReliability == Init /\ [][NextReliability]_vars

---------------------------------------------------------------------------
(* TestSecurityAuditSchedule, tests/integration/test_security_audit.py:17-80 *)
(* Times are naive local datetimes, as datetime.now() returns them, counted  *)
(* in seconds from LAST_AUDIT_DATE (line 21).                                *)

Day == 24 * 60 * 60                   \* timedelta(days = 1), in seconds
QUARTERLY_REVIEW_INTERVAL == 90       \* test_security_audit.py:22
ANNUAL_ASSESSMENT_INTERVAL == 365     \* test_security_audit.py:23
QUARTERLY_WARNING == 14               \* test_security_audit.py:47
ANNUAL_WARNING == 30                  \* test_security_audit.py:76

\* The dates at which the two tests change their behaviour, and the instants
\* around their midnights at which the tests are run.
AuditDays ==
    {0,
     QUARTERLY_REVIEW_INTERVAL - QUARTERLY_WARNING, QUARTERLY_REVIEW_INTERVAL,
     ANNUAL_ASSESSMENT_INTERVAL - ANNUAL_WARNING, ANNUAL_ASSESSMENT_INTERVAL}
AuditInstants ==
    {t \in {d * Day + e : d \in AuditDays, e \in {-1, 0, 1}} : t >= 0}

\* One run of a test of the schedule (test_security_audit.py:25-51, 53-80) at
\* the time `t`: pytest.fail when t is later than the due time; otherwise the
\* test passes, with a printed warning when t is later than the due time less
\* the warning period.
AuditRunGe(t, interval, warning) ==
    [ran |-> TRUE, at |-> t,
     outcome |-> IF t >= interval * Day THEN "failed" ELSE "passed",
     warned |-> t < interval * Day /\ t > (interval - warning) * Day]

AuditRun(t, interval, warning) ==
    [ran |-> TRUE, at |-> t,
     outcome |-> IF t > interval * Day THEN "failed" ELSE "passed",
     warned |-> ~(t > interval * Day) /\ t > (interval - warning) * Day]

\* The clock of the host moves on.
AuditTick ==
    /\ \E t \in AuditInstants : t > today /\ today' = t
    /\ UNCHANGED <<quarterly, annual>>
    /\ UNCHANGED <<serviceVars, probeVars, reliabilityVars>>

\* test_security_audit.py:25-51
test_quarterly_security_review_not_overdue ==
    /\ quarterly' = AuditRun(today, QUARTERLY_REVIEW_INTERVAL, QUARTERLY_WARNING)
    /\ UNCHANGED <<today, annual>>
    /\ UNCHANGED <<serviceVars, probeVars, reliabilityVars>>

\* test_security_audit.py:53-80
test_annual_security_assessment_not_overdue ==
    /\ annual' = AuditRun(today, ANNUAL_ASSESSMENT_INTERVAL, ANNUAL_WARNING)
    /\ UNCHANGED <<today, quarterly>>
    /\ UNCHANGED <<serviceVars, probeVars, reliabilityVars>>

NextAudit ==
    \/ AuditTick
    \/ test_quarterly_security_review_not_overdue
    \/ test_annual_security_assessment_not_overdue

SpecAudit == Init /\ [][NextAudit]_vars

---------------------------------------------------------------------------
(* Vocabulary of the properties.  `call.done` holds exactly while `resp` is *)
(* the response of the call that `call` describes.                         *)

\* The last health_check has returned and nothing raised in it: resp carries
\* the full report.
FullPath ==
    /\ call.done
    /\ call.sample.exc = "none"
    /\ call.sample.disk.total > 0

\* The last health_check has returned and its sampling failed: psutil could not
\* be imported, a psutil call raised, or the disk total was zero.
SamplingFailed ==
    /\ call.done
    /\ (call.sample.exc # "none" \/ call.sample.disk.total = 0)

CpuMemWithinBounds(s) ==
    s.cpu <= CPU_THRESHOLD * Milli /\ s.mem <= MEMORY_THRESHOLD * Milli

\* disk_percent <= 80, for a sample with a positive disk total
DiskWithinBounds(s) == DiskPercent(s.disk) <= 80 * Milli

WithinBounds(s) == CpuMemWithinBounds(s) /\ DiskWithinBounds(s)

\* The flag was clear (forced) from the start to the end of the last call.
ClearDuringCall == ~call.forcedAtStart /\ ~call.forced
ForcedDuringCall == call.forcedAtStart /\ call.forced

\* C1: a health_check that samples successfully, sees cpu <= 90, memory <= 95
\* and disk <= 80 (the boundary values included) and runs while the flag is
\* clear answers 200 with status "healthy".
C1_HealthyWithinBounds ==
    (FullPath /\ WithinBounds(call.sample) /\ ClearDuringCall)
        => (resp.code = 200 /\ resp.body.status = "healthy")

\* C1 witness: a healthy report for a sample that sits on all three boundaries.
C1_Witness ==
    /\ FullPath /\ ClearDuringCall
    /\ call.sample.cpu = CPU_THRESHOLD * Milli
    /\ call.sample.mem = MEMORY_THRESHOLD * Milli
    /\ DiskPercent(call.sample.disk) = 80 * Milli
    /\ resp.body.status = "healthy"

\* C2 as claimed: whenever cpu > 90, memory > 95 or disk > 80, the report says
\* "degraded", whatever the flag.
C2_DegradedOnAnyThreshold ==
    (FullPath /\ ~WithinBounds(call.sample)) => resp.body.status = "degraded"

\* C2 as amended: when the full report is produced, it says "degraded" exactly
\* when cpu > 90 or memory > 95, whatever the flag; disk_percent is reported but
\* compared with nothing, so disk > 80 alone never yields "degraded".
C2_DegradedOnCpuOrMemory ==
    FullPath =>
        (resp.body.status = "degraded" <=> ~CpuMemWithinBounds(call.sample))

\* C2 witness: a degraded report under a forced flag, and with the disk within
\* its bound.
C2_Witness ==
    /\ FullPath /\ ForcedDuringCall
    /\ call.sample.cpu > CPU_THRESHOLD * Milli
    /\ DiskWithinBounds(call.sample)
    /\ resp.body.status = "degraded"

\* C3: a health_check that samples successfully with all three values within
\* bounds while the flag is forced reports "unhealthy" with a non-empty reason.
C3_ForcedUnhealthyWithReason ==
    (FullPath /\ WithinBounds(call.sample) /\ ForcedDuringCall)
        => /\ resp.body.status = "unhealthy"
           /\ "reason" \in DOMAIN resp.body
           /\ resp.body.reason # ""

\* C3 witness: the scenario cpu 10, memory 20, disk 30 under a forced flag.
C3_Witness ==
    /\ FullPath /\ ForcedDuringCall
    /\ call.sample.cpu = 10 * Milli /\ call.sample.mem = 20 * Milli
    /\ DiskPercent(call.sample.disk) = 30 * Milli
    /\ resp.body.status = "unhealthy"
    /\ resp.body.reason = "Manually triggered for testing"

\* C4: a health_check that starts after a recover_health has completed, ends
\* before any later simulate_health_failure and samples values within bounds
\* reports "healthy".
C4_HealthyAfterRecover ==
    (FullPath /\ WithinBounds(call.sample)
        /\ call.adminAtStart = "recover" /\ call.lastAdmin = "recover")
        => resp.body.status = "healthy"

\* C4 witness: such a call after a simulate_health_failure had set the flag.
C4_Witness ==
    /\ FullPath /\ WithinBounds(call.sample)
    /\ call.adminAtStart = "recover" /\ call.lastAdmin = "recover"
    /\ failedAt >= 0
    /\ resp.body.status = "healthy"

\* C5 as claimed: whenever sampling fails, a missing metrics library included,
\* health_check answers 200 with the minimal report: status "healthy", the
\* service name, a timestamp and a populated error field.
C5_SamplingFailureNeverRaises ==
    SamplingFailed
        => /\ resp.code = 200
           /\ {"status", "service", "timestamp", "error"} \subseteq DOMAIN resp.body
           /\ resp.body.status = "healthy"
           /\ resp.body.error # <<>>

\* The steps of the two admin handlers and of the two handlers that only read.
FailStep ==
    pc = "idle" /\ pending # <<>> /\ Head(pending) = "fail" /\ pending' = Tail(pending)
RecoverStep ==
    pc = "idle" /\ pending # <<>> /\ Head(pending) = "recover" /\ pending' = Tail(pending)
RootStep ==
    pc = "idle" /\ pending # <<>> /\ Head(pending) = "root" /\ pending' = Tail(pending)
HealthStep ==
    \/ pc = "idle" /\ pc' = "sampling"
    \/ pc = "sampling" /\ pc' = "idle"

C7_ForcedFailureExpires ==
    (call.done /\ resp.code = 200 /\ call.lastAdmin = "fail"
        /\ resp.body.timestamp - failedAt > ADVERTISED_DURATION)
        => resp.body.status # "unhealthy"

C9_ForcedAlwaysUnhealthy ==
    (FullPath /\ ForcedDuringCall) => resp.body.status = "unhealthy"

\* C9 as amended: whenever the flag is forced and the full report is produced
\* with cpu <= 90 and memory <= 95, the status is "unhealthy", whatever the disk
\* usage; and a forced flag yields no other status than "unhealthy" except
\* "degraded" for cpu > 90 or memory > 95 and the fallback "healthy".
C9_ForcedUnhealthyUnlessDegraded ==
    /\ (FullPath /\ ForcedDuringCall /\ CpuMemWithinBounds(call.sample))
           => resp.body.status = "unhealthy"
    /\ (call.done /\ ForcedDuringCall /\ resp.code = 200
           /\ resp.body.status # "unhealthy")
           => \/ FullPath /\ ~CpuMemWithinBounds(call.sample)
                 /\ resp.body.status = "degraded"
              \/ SamplingFailed /\ resp.body.status = "healthy"

\* C9 witness: "unhealthy" under a forced flag with the disk above 80 percent.
C9_Witness ==
    /\ FullPath /\ ForcedDuringCall
    /\ CpuMemWithinBounds(call.sample) /\ ~DiskWithinBounds(call.sample)
    /\ resp.body.status = "unhealthy"

\* C10: no admin handler runs between the start and the end of a health_check,
\* so the values the flag held during the call are its value at the start and
\* its value at the end; a full report that is not "degraded" shows one of them,
\* v, in both places: status is "unhealthy" iff v and reason is present iff v.
C10_FlagReadOnce ==
    (FullPath /\ resp.body.status # "degraded")
        => \E v \in {call.forcedAtStart, call.forced} :
              /\ resp.body.status = "unhealthy" <=> v
              /\ resp.body.status = "healthy" <=> ~v
              /\ "reason" \in DOMAIN resp.body <=> v

\* C10 witness: a call during which an admin request arrived, answered from the
\* flag as it was, with the admin request still waiting.
C10_Witness ==
    /\ FullPath /\ call.overlap
    /\ pending # <<>> /\ Head(pending) = "recover"
    /\ _force_unhealthy
    /\ resp.body.status = "unhealthy" /\ "reason" \in DOMAIN resp.body

C12_ReasonIffUnhealthy ==
    (call.done /\ resp.code = 200)
        => ("reason" \in DOMAIN resp.body <=> resp.body.status = "unhealthy")

\* C12 witness: a degraded report made under a forced flag, without a reason.
C12_Witness ==
    /\ FullPath /\ ForcedDuringCall
    /\ resp.body.status = "degraded"
    /\ "reason" \notin DOMAIN resp.body

\* C13: every recover_health leaves the flag clear, whatever it was, and a
\* recover_health that follows a recover_health leaves the flag and the
\* acknowledgement as the first one left them.
C13_RecoverIdempotent ==
    [][RecoverStep =>
          /\ ~_force_unhealthy'
          /\ ack'.op = "recover"
          /\ ack.op = "recover"
                => (_force_unhealthy' = _force_unhealthy /\ ack' = ack)]_vars

\* C13 witness: recover_health has been called on a flag that was clear
\* already, no simulate_health_failure having run.
C13_Witness ==
    /\ ack.op = "recover" /\ lastAdmin = "recover"
    /\ failedAt = -1
    /\ ~_force_unhealthy

\* C14: every report health_check returns, on either path, has a status among
\* "healthy", "degraded" and "unhealthy".
C14_StatusEnum ==
    (call.done /\ resp.code = 200)
        => resp.body.status \in {"healthy", "degraded", "unhealthy"}

\* C14 witness: a fallback report, made while the flag was forced.
C14_Witness ==
    /\ SamplingFailed /\ ForcedDuringCall
    /\ resp.code = 200 /\ resp.body.status = "healthy"

\* The real time from the boot to the call, in milliseconds.
ElapsedMs(k, t) == (t * 1000 + k.nowMs) - (k.boot * 1000 + k.bootMs)

\* C15 as claimed: for a boot time not later than the time of the call, the
\* uptime_seconds of a full report is the time from the boot to the call in
\* whole seconds, and is not negative.
C15_UptimeIsElapsedSeconds ==
    (FullPath /\ ElapsedMs(call.sample.clock, resp.body.timestamp) >= 0)
        => /\ resp.body.uptime_seconds
                = TruncSeconds(ElapsedMs(call.sample.clock, resp.body.timestamp))
           /\ resp.body.uptime_seconds >= 0

\* C16: in every full report the three percentages of `system` lie in
\* [0, 100], for samples whose cpu and memory percentages do and whose disk
\* has 0 <= used <= total and total > 0.
C16_PercentagesInRange ==
    FullPath =>
        \A f \in {"cpu_percent", "memory_percent", "disk_percent"} :
            /\ resp.body.system[f] >= 0
            /\ resp.body.system[f] <= 100 * Milli

\* C16 witness: a report for a full disk, at 100 percent.
C16_Witness ==
    /\ FullPath
    /\ call.sample.disk.used = call.sample.disk.total
    /\ resp.body.system.disk_percent = 100 * Milli
    /\ resp.body.system.cpu_percent = 100 * Milli

---------------------------------------------------------------------------
(* The keyword screen of test_our_health_endpoint_design,                  *)
(* tests/security/test_access_controls.py:222-264                          *)

\* test_access_controls.py:235-242
sensitive_keywords == {"password", "token", "secret", "key", "database", "connection"}

UpperCase == "ABCDEFGHIJKLMNOPQRSTUVWXYZ"
LowerCase == "abcdefghijklmnopqrstuvwxyz"

\* str.lower() on one character (test_access_controls.py:234)
LowerChar(c) ==
    IF \E i \in 1..Len(UpperCase) : SubSeq(UpperCase, i, i) = c
    THEN LET i == CHOOSE i \in 1..Len(UpperCase) : SubSeq(UpperCase, i, i) = c
         IN  SubSeq(LowerCase, i, i)
    ELSE c

\* `kw in response.text.lower()` (test_access_controls.py:234, 244): kw, all in
\* lower case, occurs in the text at some position, letter case set aside.
ContainsLowered(text, kw) ==
    \E i \in 1..(Len(text) - Len(kw) + 1) :
        \A j \in 1..Len(kw) :
            LowerChar(SubSeq(text, i + j - 1, i + j - 1)) = SubSeq(kw, j, j)

\* The JSON text the framework sends for a dictionary returned by health_check
\* (main.py:56, main.py:60-65).  Every number is written as the digit 0: digits
\* and punctuation take no part in a match with a keyword.
ResponseText(body) ==
    IF "error" \in DOMAIN body
    THEN "{\"status\":\"" \o body.status \o "\",\"service\":\"" \o body.service
         \o "\",\"timestamp\":\"0Z\",\"error\":\"" \o body.error[1] \o body.error[2]
         \o "\"}"
    ELSE "{\"status\":\"" \o body.status \o "\",\"service\":\"" \o body.service
         \o "\",\"timestamp\":\"0Z\",\"uptime_seconds\":0,\"system\":{\"cpu_percent\":0,"
         \o "\"memory_percent\":0,\"disk_percent\":0},\"environment\":\""
         \o body.environment \o "\",\"version\":\"" \o body.version \o "\""
         \o (IF "reason" \in DOMAIN body
             THEN ",\"reason\":\"" \o body.reason \o "\"}"
             ELSE "}")

\* C17 as claimed: no 200 response of /healthz contains, letter case set aside,
\* any of the sensitive keywords, whatever report it carries and whatever the
\* ENVIRONMENT value shown in it.
C17_NoSensitiveKeyword ==
    (call.done /\ resp.code = 200)
        => \A kw \in sensitive_keywords : ~ContainsLowered(ResponseText(resp.body), kw)

\* C18: every response of root is the same dictionary, with status "running",
\* whatever the flag and whatever health_check reports.
C18_RootAlwaysRunning ==
    ack.op = "root"
        => ack.body = [service |-> "ingestion-service", status |-> "running",
                       version |-> "0.1.0"]

\* C18 witness: root has answered "running" while the flag was forced and the
\* last /healthz report said "unhealthy".
C18_Witness ==
    /\ ack.op = "root" /\ ack.body.status = "running"
    /\ _force_unhealthy
    /\ FullPath /\ resp.body.status = "unhealthy"

\* C19: the environment field of a full report is the value of ENVIRONMENT
\* when the variable is set, and "unknown" when it is absent.
C19_EnvironmentField ==
    FullPath =>
        resp.body.environment
            = (IF call.sample.env.set THEN call.sample.env.value ELSE "unknown")

\* C19 witness: ENVIRONMENT set to the empty string, reported as it is.
C19_Witness ==
    /\ FullPath
    /\ call.sample.env.set /\ call.sample.env.value = ""
    /\ resp.body.environment = ""

\* C20: under a forced flag a sample with cpu > 90 or memory > 95 is reported
\* "degraded" and without a reason; "unhealthy" is reported only by a call that
\* took the full path under a forced flag with cpu <= 90 and memory <= 95.
C20_DegradedBeforeOverride ==
    /\ (FullPath /\ ForcedDuringCall /\ ~CpuMemWithinBounds(call.sample))
           => (resp.body.status = "degraded" /\ "reason" \notin DOMAIN resp.body)
    /\ (call.done /\ resp.code = 200 /\ resp.body.status = "unhealthy")
           => (FullPath /\ ForcedDuringCall /\ CpuMemWithinBounds(call.sample))

\* C20 witness: cpu just above 90 with the memory within its bound, the flag
\* forced by a simulate_health_failure, reported "degraded" without a reason.
C20_Witness ==
    /\ FullPath /\ ForcedDuringCall /\ call.lastAdmin = "fail"
    /\ call.sample.cpu = CPU_THRESHOLD * Milli + 4
    /\ call.sample.mem <= MEMORY_THRESHOLD * Milli
    /\ resp.body.status = "degraded"
    /\ "reason" \notin DOMAIN resp.body

\* The last health_check has returned after an exception raised within the try
\* of main.py:25-56: a psutil call raised, or the disk total was zero.
CaughtFailure ==
    /\ call.done
    /\ call.sample.exc # "ImportError"
    /\ (call.sample.exc # "none" \/ call.sample.disk.total = 0)

\* C21: when an exception is raised within the try block, health_check answers
\* 200 with the fallback report: status "healthy", the service name, the
\* timestamp and the error text, and nothing else, so no reason.  The report is
\* determined by the failure alone: it is the same under a forced flag as under
\* a clear one.
C21_FallbackMasksForcedFlag ==
    CaughtFailure
        => /\ resp.code = 200
           /\ resp.body
                = [status |-> "healthy",
                   service |-> "ingestion-service",
                   timestamp |-> resp.body.timestamp,
                   error |-> <<"Extended health check failed: ",
                               IF call.sample.exc # "none"
                               THEN call.sample.exc ELSE "division by zero">>]

\* C21 witness: a division by zero at main.py:43 while the flag was forced by a
\* simulate_health_failure, reported "healthy" and without a reason.
C21_Witness ==
    /\ CaughtFailure /\ call.sample.exc = "none"
    /\ ForcedDuringCall /\ call.lastAdmin = "fail"
    /\ resp.body.status = "healthy"
    /\ "reason" \notin DOMAIN resp.body
    /\ "error" \in DOMAIN resp.body

C23_ForcedIffLastAdminForced ==
    /\ [](_force_unhealthy <=> lastAdmin = "fail")
    /\ [][FailStep => (_force_unhealthy' /\ lastAdmin' = "fail")]_vars
    /\ [][RecoverStep => (~_force_unhealthy' /\ lastAdmin' = "recover")]_vars

\* C23 witness: the flag forced after a simulate_health_failure that came later
\* than a report which had shown the flag forced by an earlier one.
C23_Witness ==
    /\ _force_unhealthy /\ lastAdmin = "fail"
    /\ FullPath /\ call.forced /\ call.lastAdmin = "fail"
    /\ resp.body.status = "unhealthy"
    /\ failedAt > resp.body.timestamp

\* C24: while a health_check is between its start and its return no admin
\* handler runs: the flag, the last admin handler and the last acknowledgement
\* stay as they are.  Every completed call therefore ends with the flag it
\* started with and reports by that value.
C24_HandlerAtomic ==
    /\ [][pc = "sampling"
            => /\ _force_unhealthy' = _force_unhealthy
               /\ lastAdmin' = lastAdmin
               /\ ack' = ack]_vars
    /\ [](call.done => /\ call.forced = call.forcedAtStart
                       /\ call.lastAdmin = call.adminAtStart)
    /\ []((FullPath /\ CpuMemWithinBounds(call.sample))
            => (resp.body.status = "unhealthy" <=> call.forcedAtStart))

\* C24 witness: a call that started with the flag clear, during which a
\* simulate_health_failure request arrived, has reported "healthy"; the request
\* is still waiting and no simulate_health_failure has run yet.
C24_Witness ==
    /\ FullPath /\ call.overlap /\ ~call.forcedAtStart
    /\ pending # <<>> /\ Head(pending) = "fail"
    /\ failedAt = -1 /\ ~_force_unhealthy
    /\ resp.body.status = "healthy"

---------------------------------------------------------------------------
(* Properties of the test programs *)

\* The attempt was answered with 200 or 404.
Answered(a) == a.exc = "none" /\ a.code \in {200, 404}

\* The attempt ended in the next iteration: another status, an exception of
\* session.get, or a 200 whose JSON body has neither key.
Retried(a) ==
    \/ a.exc # "none"
    \/ a.code \notin {200, 404}
    \/ a.code = 200 /\ a.body = "json_neither"

\* The attempt was answered with 404 and the root URL with an exception or
\* with a status other than 200, 404, 405 and 501.
RootRefused(a) ==
    /\ a.exc = "none" /\ a.code = 404
    /\ ~(a.root.exc = "none" /\ a.root.code \in {200, 404, 405, 501})

C26_MissingStatusFailsProbe ==
    (/\ probe \in {"passed", "failed"}
     /\ \E k \in 1..Len(answers) :
           answers[k].code = 200 /\ answers[k].body = "json_neither")
        => probe = "failed"

\* C27 as claimed: the finished test has passed exactly when at least two of
\* its three requests succeeded.
C27_PassesOnTwoOfThree ==
    reliability \in {"passed", "failed"}
        => (reliability = "passed"
                <=> Cardinality({k \in 1..Len(replies) : RequestSucceeds(replies[k])}) >= 2)

\* C28: a run of the quarterly test fails exactly when its time is later than
\* 90 days after LAST_AUDIT_DATE and a run of the annual test exactly when its
\* time is later than 365 days after it, so both pass at the due instant.  A
\* quarterly run no earlier than a failed annual run fails, and a run of a test
\* that follows a failed run of the same test fails.
C28_AuditOverdue ==
    /\ [](quarterly.ran =>
            (quarterly.outcome = "failed"
                <=> quarterly.at > QUARTERLY_REVIEW_INTERVAL * Day))
    /\ [](annual.ran =>
            (annual.outcome = "failed"
                <=> annual.at > ANNUAL_ASSESSMENT_INTERVAL * Day))
    /\ []((/\ annual.ran /\ annual.outcome = "failed"
           /\ quarterly.ran /\ quarterly.at >= annual.at)
            => quarterly.outcome = "failed")
    /\ [][quarterly.outcome = "failed" => quarterly'.outcome = "failed"]_vars
    /\ [][annual.outcome = "failed" => annual'.outcome = "failed"]_vars

\* C28 witness: the quarterly test has passed at its due instant and the annual
\* test has failed one second after its own.
C28_Witness ==
    /\ quarterly.ran /\ quarterly.at = QUARTERLY_REVIEW_INTERVAL * Day
    /\ quarterly.outcome = "passed"
    /\ annual.ran /\ annual.at = ANNUAL_ASSESSMENT_INTERVAL * Day + 1
    /\ annual.outcome = "failed"

\* C29 as claimed: the indicator printed for a request is the success mark
\* exactly when that request succeeded.
C29_IndicatorPerRequest ==
    \A k \in 1..Len(marks) :
        marks[k] = "success" <=> RequestSucceeds(replies[k])

====
